---------------------------- MODULE Spec2Model ----------------------------
(***************************************************************************)
(* DeDoppelgaenger (src/dedoppelgaenger.py): perceptual-hash index and     *)
(* near-duplicate search.                                                  *)
(*                                                                         *)
(* The module models                                                       *)
(*   - ImageHashTable: a defaultdict(set) in insertion order,              *)
(*   - load_hashes / collect_hashes / hash_images with the thread pool,    *)
(*   - find_doppelgaenger on top of the vptree library,                    *)
(*   - output_hashes / handle_output and main with its two handlers.       *)
(*                                                                         *)
(* Fingerprints are naturals read as bit vectors, paths are naturals.      *)
(* Distances handed to the tree are kept in hundredths (Scale), so that    *)
(* EPSILON = 0.01 and the half-integer medians of numpy are exact.         *)
(***************************************************************************)
EXTENDS Integers, Sequences, FiniteSets, TLC

\* ------------------------------------------------------------------ bounds
\* Largest fingerprint of the search specifications (0..7: three bits).
MaxFingerprint == 7
\* Longest list of target fingerprints the tree is built over.
MaxTargets == 4
\* Largest --distance.
MaxDist == 2
\* Most entries of a reference/target index of the assembly specification,
\* whose fingerprints are 0..MaxEntries and whose paths are 1..MaxEntries.
MaxEntries == 2
\* Largest fingerprint of a run.
MaxRunFingerprint == 1
\* Most image files of one run (paths 1..MaxFiles).
MaxFiles == 2
\* Most JSON files of one run.
MaxJson == 2
\* Most entries of one JSON file.
MaxJsonEntries == 1
\* Largest --threads.
MaxThreads == 2

\* --------------------------------------------------------------- constants
\* EPSILON = 0.01, in hundredths.
EPSILON == 1
\* One integer distance, in hundredths.
Scale == 100
\* numpy.inf, in hundredths.
Inf == 1000000

Fingerprints == 0..MaxFingerprint
SearchFingerprints == 0..MaxEntries
SearchPaths == 1..MaxEntries
RunFingerprints == 0..MaxRunFingerprint
Paths == 1..MaxFiles
\* hash_image returns None for a file it cannot read.
Fail == -1

Min(a, b) == IF a <= b THEN a ELSE b
Range(s) == {s[i] : i \in 1..Len(s)}

\* ---------------------------------------------------------- ImageHashTable
\* A table is the sequence of its (hash, files) entries in insertion order.
EmptyTable == << >>

\* keys(): the hashes in insertion order.
Keys(t) == [i \in 1..Len(t) |-> t[i].hash]

KeySet(t) == {t[i].hash : i \in 1..Len(t)}

IndexOf(t, k) == CHOOSE i \in 1..Len(t) : t[i].hash = k

\* The table after __getitem__(k): a defaultdict inserts an empty set for a
\* key it does not hold.
GetItem(t, k) ==
    IF k \in KeySet(t) THEN t ELSE Append(t, [hash |-> k, files |-> {}])

\* The set __getitem__(k) returns.
Lookup(t, k) == IF k \in KeySet(t) THEN t[IndexOf(t, k)].files ELSE {}

\* __setitem__(k, v): replaces the set of a key, appends a new key.
SetItem(t, k, v) ==
    IF k \in KeySet(t)
    THEN [t EXCEPT ![IndexOf(t, k)].files = v]
    ELSE Append(t, [hash |-> k, files |-> v])

\* table[k] |= v : __getitem__, set.__ior__, __setitem__.
IorItem(t, k, v) ==
    LET t1 == GetItem(t, k)
    IN  SetItem(t1, k, Lookup(t1, k) \cup v)

\* update(other): unions every entry of other into the table.
RECURSIVE UpdateFrom(_, _, _)
UpdateFrom(t, other, i) ==
    IF i > Len(other) THEN t
    ELSE UpdateFrom(IorItem(t, other[i].hash, other[i].files), other, i + 1)

Update(t, other) == UpdateFrom(t, other, 1)

\* The content of a table without its order: hash -> files.
Content(t) == [k \in KeySet(t) |-> Lookup(t, k)]

\* ------------------------------------------------------------- fingerprints
\* imagehash.ImageHash.__sub__: the number of differing bits.
RECURSIVE Hamming(_, _)
Hamming(a, b) ==
    IF a = 0 /\ b = 0 THEN 0
    ELSE (IF a % 2 # b % 2 THEN 1 ELSE 0) + Hamming(a \div 2, b \div 2)

\* The distance function handed to the tree: lambda a, b: b - a.
Distance(a, b) == Hamming(b, a) * Scale

\* ------------------------------------------------------------------ vptree
NoneNode == [nil |-> TRUE]

\* numpy.median of a non-empty list, in the list's unit: the middle element, or
\* the mean of the two middle elements.
KthSmallest(ds, k) ==
    CHOOSE v \in Range(ds) :
        /\ Cardinality({i \in 1..Len(ds) : ds[i] < v}) < k
        /\ Cardinality({i \in 1..Len(ds) : ds[i] <= v}) >= k

Median(ds) ==
    LET n == Len(ds)
    IN  IF n % 2 = 1 THEN KthSmallest(ds, (n + 1) \div 2)
        ELSE (KthSmallest(ds, n \div 2) + KthSmallest(ds, n \div 2 + 1)) \div 2

\* The loop of VPTree.__init__ that deals the points to the two sides, the
\* furthest point of a side first.
RECURSIVE Split(_, _, _, _, _)
Split(vp, points, i, median, acc) ==
    IF i > Len(points) THEN acc
    ELSE LET point == points[i]
             d == Distance(vp, point)
         IN  IF d >= median
             THEN Split(vp, points, i + 1, median,
                    [acc EXCEPT
                       !.right_min = Min(d, @),
                       !.right_max = IF d > @ THEN d ELSE @,
                       !.right_points = IF d > acc.right_max
                                        THEN <<point>> \o @
                                        ELSE Append(@, point)])
             ELSE Split(vp, points, i + 1, median,
                    [acc EXCEPT
                       !.left_min = Min(d, @),
                       !.left_max = IF d > @ THEN d ELSE @,
                       !.left_points = IF d > acc.left_max
                                       THEN <<point>> \o @
                                       ELSE Append(@, point)])

\* VPTree(points, dist_fn) for a non-empty list of points.
RECURSIVE VPTree(_)
VPTree(points) ==
    LET vp == points[1]
        rest == Tail(points)
        leaf == [nil |-> FALSE, vp |-> vp, left |-> NoneNode, right |-> NoneNode,
                 left_min |-> Inf, left_max |-> 0,
                 right_min |-> Inf, right_max |-> 0]
    IN  IF Len(rest) = 0 THEN leaf
        ELSE LET distances == [i \in 1..Len(rest) |-> Distance(vp, rest[i])]
                 s == Split(vp, rest, 1, Median(distances),
                            [left_min |-> Inf, left_max |-> 0,
                             right_min |-> Inf, right_max |-> 0,
                             left_points |-> << >>, right_points |-> << >>])
             IN  [nil |-> FALSE, vp |-> vp,
                  left |-> IF Len(s.left_points) > 0
                           THEN VPTree(s.left_points) ELSE NoneNode,
                  right |-> IF Len(s.right_points) > 0
                            THEN VPTree(s.right_points) ELSE NoneNode,
                  left_min |-> s.left_min, left_max |-> s.left_max,
                  right_min |-> s.right_min, right_max |-> s.right_max]

\* get_all_in_range: the points the traversal reports, as a set (the caller
\* reads neither the order nor the distances of the pairs).  d0 is the lower
\* bound queued with the node.
RECURSIVE Visit(_, _, _, _)
Visit(node, d0, query, max_dist) ==
    IF node.nil \/ d0 > max_dist THEN {}
    ELSE LET d == Distance(query, node.vp)
             here == IF d < max_dist THEN {node.vp} ELSE {}
             side(child, lo, hi) ==
                 IF lo <= d /\ d <= hi THEN Visit(child, 0, query, max_dist)
                 ELSE IF lo - max_dist <= d /\ d <= hi + max_dist
                      THEN Visit(child, IF d < lo THEN lo - d ELSE d - hi,
                                 query, max_dist)
                      ELSE {}
         IN  IF node.left.nil /\ node.right.nil THEN here
             ELSE here \cup side(node.left, node.left_min, node.left_max)
                       \cup side(node.right, node.right_min, node.right_max)

GetAllInRange(t, query, max_dist) == Visit(t, 0, query, max_dist)

\* ------------------------------------------------------ find_doppelgaenger
\* The radius of the range query: max_distance + EPSILON.
QueryRadiusNoEpsilon(d) == d * Scale

QueryRadius(d) == d * Scale + EPSILON

\* The matched hashes of one reference hash.
Matches(t, reference_hash, d) ==
    GetAllInRange(t, reference_hash, QueryRadius(d))

\* all_matching_files: the union of the target sets of the matched hashes.
AllMatchingFiles(target, matches) ==
    UNION {Lookup(target, m) : m \in matches}

\* doppelgaenger[reference_filename] = all_matching_files, for every file name.
AssignKeepFirst(dg, filenames, files) ==
    [p \in DOMAIN dg \cup filenames |->
        IF p \in DOMAIN dg THEN dg[p] ELSE files]

AssignAll(dg, filenames, files) ==
    [p \in DOMAIN dg \cup filenames |->
        IF p \in filenames THEN files ELSE dg[p]]

\* One round of the loop over reference_hashes.items().
SearchStep(dg, entry, t, target, d) ==
    LET matches == Matches(t, entry.hash, d)
    IN  IF matches # {}
        THEN AssignAll(dg, entry.files, AllMatchingFiles(target, matches))
        ELSE dg

EmptyResult == [p \in {} |-> {}]


\* ------------------------------------------------------------------- state
VARIABLES
    pc,               \* where main is
    command,          \* args.command
    threads,          \* args.threads
    batch,            \* the collect_hashes call in progress
    json_files,       \* JSON files collect_hashes has still to load
    image_files,      \* the list of image files collect_hashes found
    results,          \* path of the list -> what hash_image returns for it
    hashes,           \* the table collect_hashes is filling
    before,           \* hashes as hash_images received it
    contributed,      \* hash -> the paths the sources of this batch gave
    futures,          \* the submitted tasks: path, state, times folded
    work_queue,       \* the tasks (by number) no worker has taken yet
    interrupted,      \* KeyboardInterrupt raised inside the executor block
    stderr_lines,     \* batch -> path -> its "failed to read" lines
    loaded,           \* batch -> JSON files loaded
    dispatched,       \* batch -> tasks submitted
    completed,        \* batch -> tasks a worker has finished
    folded,           \* batch -> results the as_completed loop has handled
    reference_hashes,
    target_hashes,
    max_distance,     \* args.distance
    tree,             \* the VPTree of find_doppelgaenger
    ref_index,        \* next entry of reference_hashes.items()
    last_query,            \* the last range query and what it returned
    doppelgaenger,
    dest,             \* "none" until handle_output opens it
    written,          \* chunks json.dump has written to dest
    exit_code,        \* -1 while main runs
    error             \* what ended the run

vars == <<pc, command, threads, batch, json_files, image_files, results,
          hashes, before, contributed, futures, work_queue, interrupted, stderr_lines, loaded,
          dispatched, completed, folded, reference_hashes, target_hashes,
          max_distance, tree, ref_index, last_query, doppelgaenger, dest, written,
          exit_code, error>>

collectVars == <<batch, json_files, image_files, results, hashes, before,
                 contributed>>
poolVars == <<futures, work_queue, interrupted, stderr_lines,
              loaded, dispatched, completed, folded>>
searchVars == <<max_distance, tree, ref_index, last_query, doppelgaenger>>
outputVars == <<dest, written>>
argVars == <<command, threads>>
indexVars == <<reference_hashes, target_hashes>>

Batches == {"reference", "target"}
NoContribution == [k \in RunFingerprints |-> {}]
NoFutures == << >>
NoResults == [p \in {} |-> 0]
NoQuery == [valid |-> FALSE, hash |-> 0, matches |-> {}]
NoCount == [b \in Batches |-> 0]
NoLines == [b \in Batches |-> [p \in Paths |-> 0]]

\* Tables of at most n entries over the given hashes and file sets.
TablesOver(fps, filesets, n) ==
    UNION {{t \in [1..k -> [hash : fps, files : filesets]] :
              \A i, j \in 1..k : i # j => t[i].hash # t[j].hash} : k \in 0..n}

\* ------------------------------------------------- find_doppelgaenger steps
\* tree_hashes = list(target_hashes.keys()); tree = vptree.VPTree(...).
\* VPTree raises ValueError for an empty list, which main reports (exit 1).
BuildTree ==
    /\ pc = "find"
    /\ \E d \in 0..MaxDist :
         IF Len(target_hashes) = 0
         THEN /\ pc' = "exit"
              /\ exit_code' = 1
              /\ error' = "ValueError"
              /\ UNCHANGED searchVars
         ELSE /\ max_distance' = d
              /\ tree' = VPTree(Keys(target_hashes))
              /\ ref_index' = 1
              /\ doppelgaenger' = EmptyResult
              /\ pc' = "query"
              /\ UNCHANGED <<last_query, exit_code, error>>
    /\ UNCHANGED <<argVars, collectVars, poolVars, indexVars, outputVars>>

\* One round of: for reference_hash, reference_filenames in items().
QueryStep ==
    /\ pc = "query"
    /\ ref_index <= Len(reference_hashes)
    /\ LET entry == reference_hashes[ref_index]
       IN  /\ last_query' = [valid |-> TRUE, hash |-> entry.hash,
                        matches |-> Matches(tree, entry.hash, max_distance)]
           /\ doppelgaenger' = SearchStep(doppelgaenger, entry, tree,
                                          target_hashes, max_distance)
    /\ ref_index' = ref_index + 1
    /\ UNCHANGED <<pc, max_distance, tree, exit_code, error>>
    /\ UNCHANGED <<argVars, collectVars, poolVars, indexVars, outputVars>>

\* return doppelgaenger
SearchReturn ==
    /\ pc = "query"
    /\ ref_index > Len(reference_hashes)
    /\ pc' = "output"
    /\ UNCHANGED <<searchVars, exit_code, error>>
    /\ UNCHANGED <<argVars, collectVars, poolVars, indexVars, outputVars>>

NextSearch == BuildTree \/ QueryStep \/ SearchReturn

\* A call of find_doppelgaenger(reference, target, .) as main makes it.
SearchCall(reference, target) ==
    /\ pc = "find"
    /\ command = "find"
    /\ threads = 1
    /\ batch = "target"
    /\ json_files = 0
    /\ image_files = << >>
    /\ results = NoResults
    /\ hashes = EmptyTable
    /\ before = EmptyTable
    /\ contributed = NoContribution
    /\ futures = NoFutures
    /\ work_queue = << >>
    /\ interrupted = FALSE
    /\ stderr_lines = NoLines
    /\ loaded = NoCount
    /\ dispatched = NoCount
    /\ completed = NoCount
    /\ folded = NoCount
    /\ reference_hashes = reference
    /\ target_hashes = target
    /\ max_distance = 0
    /\ tree = NoneNode
    /\ ref_index = 1
    /\ last_query = NoQuery
    /\ doppelgaenger = EmptyResult
    /\ dest = "none"
    /\ written = 0
    /\ exit_code = -1
    /\ error = "none"

\* Range queries: every fingerprint once as a reference hash, against every
\* list of at most MaxTargets distinct target hashes in every order.
InitQuery ==
    \E target \in TablesOver(Fingerprints, {{0}}, MaxTargets) :
        SearchCall([i \in 1..(MaxFingerprint + 1) |->
                        [hash |-> i - 1, files |-> {i - 1}]],
                   [i \in 1..Len(target) |->
                        [hash |-> target[i].hash, files |-> {target[i].hash}]])

SpecQuery == InitQuery /\ [][NextSearch]_vars

\* The path sets of the reference indexes: empty, one path, every path.
SearchPathSets == {{}, SearchPaths} \cup {{p} : p \in SearchPaths}

\* Assembly: every reference index of at most MaxEntries entries over these
\* path sets (shared paths included), in every order, against every set of at
\* most MaxEntries target hashes in ascending order, the hash t holding the
\* paths t and t + 1.
InitSearch ==
    \E reference \in TablesOver(SearchFingerprints, SearchPathSets, MaxEntries),
       target \in TablesOver(SearchFingerprints, {{0}}, MaxEntries) :
        /\ \A i, j \in 1..Len(target) : i < j => target[i].hash < target[j].hash
        /\ SearchCall(reference,
                      [i \in 1..Len(target) |->
                           [hash |-> target[i].hash,
                            files |-> {target[i].hash, target[i].hash + 1}]])

SpecSearch == InitSearch /\ [][NextSearch]_vars

\* The brute-force answer of a range query.
BruteForce(target, reference_hash, d) ==
    {t \in KeySet(target) : Hamming(reference_hash, t) <= d}



\* ------------------------------------------------------------- load_hashes
\* What json.load returns for a JSON file that parses: at most MaxJsonEntries
\* entries, hash -> list of paths (an empty list included).
JsonSources == TablesOver(RunFingerprints, SUBSET Paths, MaxJsonEntries)

\* hashes[image_hash] = set(files_set), for one entry of the file.
StoreEntry(t, k, files) == SetItem(t, k, files)

RECURSIVE LoadFrom(_, _, _)
LoadFrom(t, raw, i) ==
    IF i > Len(raw) THEN t
    ELSE LoadFrom(StoreEntry(t, raw[i].hash, raw[i].files), raw, i + 1)

LoadHashes(t, raw) == LoadFrom(t, raw, 1)

\* The paths a source gives, added to the record of the batch.
Contribute(c, raw) ==
    [k \in DOMAIN c |->
        c[k] \cup UNION {raw[i].files : i \in {j \in 1..Len(raw) : raw[j].hash = k}}]

\* ------------------------------------------------------------- hash_images
\* hashes[image_hash].add(path)
AddPath(t, k, p) ==
    LET t1 == GetItem(t, k)
    IN  [t1 EXCEPT ![IndexOf(t1, k)].files = @ \cup {p}]

\* The body of the as_completed loop for one result.
FoldResultOverwriting(t, result, p) ==
    IF result # Fail THEN SetItem(t, result, {p}) ELSE t

FoldResult(t, result, p) ==
    IF result # Fail THEN AddPath(t, result, p) ELSE t

Running(fs) == {i \in DOMAIN fs : fs[i].state = "running"}

AllFinished(fs) == \A i \in DOMAIN fs : fs[i].state = "finished"

\* as_completed is exhausted: every future has been yielded.
LoopDoneAfterFirst(fs) == \E i \in DOMAIN fs : fs[i].folds > 0

LoopDone(fs) == \A i \in DOMAIN fs : fs[i].folds > 0

\* ------------------------------------------------------------------ output
\* output_hashes: merged[k] = v over the first table, merged[k] |= v over the
\* second.
RECURSIVE CopyFrom(_, _, _)
CopyFrom(t, other, i) ==
    IF i > Len(other) THEN t
    ELSE CopyFrom(SetItem(t, other[i].hash, other[i].files), other, i + 1)

Merged(reference, target) ==
    UpdateFrom(CopyFrom(EmptyTable, reference, 1), target, 1)

\* The entries of the dict handle_output writes.
OutputEntries ==
    IF command = "hash"
    THEN Len(Merged(target_hashes, target_hashes))
    ELSE Cardinality(DOMAIN doppelgaenger)

\* json.dump writes the dict chunk by chunk: "{}" for an empty dict, else the
\* opening brace, the entries and the closing brace (one chunk stands for the
\* chunks of one entry).
NumChunks(n) == IF n = 0 THEN 1 ELSE n + 2

\* -------------------------------------------------------------------- main
Init ==
    /\ command \in {"hash", "find"}
    /\ threads \in 1..MaxThreads
    /\ pc = "walk"
    /\ batch = (IF command = "find" THEN "reference" ELSE "target")
    /\ json_files = 0
    /\ image_files = << >>
    /\ results = NoResults
    /\ hashes = EmptyTable
    /\ before = EmptyTable
    /\ contributed = NoContribution
    /\ futures = NoFutures
    /\ work_queue = << >>
    /\ interrupted = FALSE
    /\ stderr_lines = NoLines
    /\ loaded = NoCount
    /\ dispatched = NoCount
    /\ completed = NoCount
    /\ folded = NoCount
    /\ reference_hashes = EmptyTable
    /\ target_hashes = EmptyTable
    /\ max_distance = 0
    /\ tree = NoneNode
    /\ ref_index = 1
    /\ last_query = NoQuery
    /\ doppelgaenger = EmptyResult
    /\ dest = "none"
    /\ written = 0
    /\ exit_code = -1
    /\ error = "none"

\* The lists of at most n image files: a file reached through two of the
\* given paths is in the list twice.
ListsOver(paths, n) == UNION {[1..k -> paths] : k \in 0..n}

\* collect_hashes, first loop: the JSON files and the image files under the
\* given paths, appended in the order they are reached.  What hash_image will
\* return for a file is fixed here (the hashing primitive is deterministic).
\* A run reads at most MaxJson JSON files and hashes at most MaxFiles list
\* items in all.
Walk ==
    /\ pc = "walk"
    /\ \E n \in 0..(MaxJson - loaded["reference"]),
          files \in ListsOver(Paths, MaxFiles - dispatched["reference"]) :
         \E outcome \in [Range(files) -> RunFingerprints \cup {Fail}] :
               /\ json_files' = n
               /\ image_files' = files
               /\ results' = outcome
    /\ hashes' = EmptyTable
    /\ pc' = "load"
    /\ UNCHANGED <<batch, before, contributed>>
    /\ UNCHANGED <<argVars, poolVars, indexVars, searchVars, outputVars,
                   exit_code, error>>

\* load_hashes(hashes, file) for the next JSON file; a file that does not
\* parse raises, which main reports (exit 1).
LoadJson ==
    /\ pc = "load"
    /\ json_files > 0
    /\ \/ /\ \E raw \in JsonSources :
               /\ hashes' = LoadHashes(hashes, raw)
               /\ contributed' = Contribute(contributed, raw)
          /\ json_files' = json_files - 1
          /\ loaded' = [loaded EXCEPT ![batch] = @ + 1]
          /\ UNCHANGED <<pc, exit_code, error>>
       \/ /\ pc' = "exit"
          /\ exit_code' = 1
          /\ error' = "JSONError"
          /\ UNCHANGED <<hashes, contributed, json_files, loaded>>
    /\ UNCHANGED <<batch, image_files, results, before>>
    /\ UNCHANGED <<futures, work_queue, interrupted, stderr_lines, dispatched,
                   completed, folded>>
    /\ UNCHANGED <<argVars, indexVars, searchVars, outputVars>>

\* if image_files: hash_images(...) opens the executor; else return hashes.
StartHashing ==
    /\ pc = "load"
    /\ json_files = 0
    /\ before' = hashes
    /\ pc' = (IF Len(image_files) = 0 THEN "collected" ELSE "submit")
    /\ UNCHANGED <<batch, json_files, image_files, results, hashes, contributed>>
    /\ UNCHANGED <<argVars, poolVars, indexVars, searchVars, outputVars,
                   exit_code, error>>

\* executor.submit(hash_image, path) for the next path of the list: one task
\* for every item of the list.
Submit ==
    /\ pc = "submit"
    /\ LET i == Len(futures) + 1
       IN  /\ i <= Len(image_files)
           /\ futures' = Append(futures, [path |-> image_files[i],
                                          state |-> "pending", folds |-> 0])
           /\ work_queue' = Append(work_queue, i)
           /\ pc' = (IF i = Len(image_files) THEN "loop" ELSE "submit")
    /\ dispatched' = [dispatched EXCEPT ![batch] = @ + 1]
    /\ UNCHANGED <<interrupted, stderr_lines, loaded, completed, folded>>
    /\ UNCHANGED <<argVars, collectVars, indexVars, searchVars, outputVars,
                   exit_code, error>>

\* A free worker takes the oldest queued task.  The workers run until the
\* executor has shut down, also while __exit__ waits for them.
StartTask ==
    /\ pc \in {"submit", "loop", "shutdown"}
    /\ Len(work_queue) > 0
    /\ Cardinality(Running(futures)) < threads
    /\ futures' = [futures EXCEPT ![Head(work_queue)].state = "running"]
    /\ work_queue' = Tail(work_queue)
    /\ UNCHANGED <<pc, interrupted, stderr_lines, loaded, dispatched, completed,
                   folded>>
    /\ UNCHANGED <<argVars, collectVars, indexVars, searchVars, outputVars,
                   exit_code, error>>

\* hash_image(path) returns in its worker; a file that cannot be read prints
\* one line and returns None.
FinishTask ==
    /\ \E i \in Running(futures) :
         /\ futures' = [futures EXCEPT ![i].state = "finished"]
         /\ stderr_lines' =
               IF results[futures[i].path] = Fail
               THEN [stderr_lines EXCEPT ![batch][futures[i].path] = @ + 1]
               ELSE stderr_lines
    /\ completed' = [completed EXCEPT ![batch] = @ + 1]
    /\ UNCHANGED <<pc, work_queue, interrupted, loaded, dispatched, folded>>
    /\ UNCHANGED <<argVars, collectVars, indexVars, searchVars, outputVars,
                   exit_code, error>>

\* One round of the as_completed loop, in the main thread.
Fold ==
    /\ pc = "loop"
    /\ \E i \in DOMAIN futures :
         LET p == futures[i].path
         IN  /\ futures[i].state = "finished"
             /\ futures[i].folds = 0
             /\ hashes' = FoldResult(hashes, results[p], p)
             /\ contributed' =
                   IF results[p] = Fail THEN contributed
                   ELSE [contributed EXCEPT ![results[p]] = @ \cup {p}]
             /\ futures' = [futures EXCEPT ![i].folds = @ + 1]
    /\ folded' = [folded EXCEPT ![batch] = @ + 1]
    /\ UNCHANGED <<pc, batch, json_files, image_files, results, before>>
    /\ UNCHANGED <<work_queue, interrupted, stderr_lines, loaded, dispatched,
                   completed>>
    /\ UNCHANGED <<argVars, indexVars, searchVars, outputVars, exit_code, error>>

\* The loop ends; the with block calls shutdown(wait=True).
LoopExit ==
    /\ pc = "loop"
    /\ LoopDone(futures)
    /\ pc' = "shutdown"
    /\ UNCHANGED <<argVars, collectVars, poolVars, indexVars, searchVars,
                   outputVars, exit_code, error>>

\* shutdown(wait=True) returns once every submitted task has run; then
\* hash_images returns, or the KeyboardInterrupt reaches main's handler.
Shutdown ==
    /\ pc = "shutdown"
    /\ work_queue = << >>
    /\ AllFinished(futures)
    /\ IF interrupted
       THEN pc' = "exit" /\ exit_code' = 1 /\ error' = "KeyboardInterrupt"
       ELSE pc' = "collected" /\ UNCHANGED <<exit_code, error>>
    /\ UNCHANGED <<argVars, collectVars, poolVars, indexVars, searchVars,
                   outputVars>>

\* collect_hashes returns to main, which goes on with the next call.
CollectReturn ==
    /\ pc = "collected"
    /\ IF batch = "reference"
       THEN /\ reference_hashes' = hashes
            /\ batch' = "target"
            /\ pc' = "walk"
            /\ UNCHANGED target_hashes
       ELSE /\ target_hashes' = hashes
            /\ pc' = (IF command = "hash" THEN "output" ELSE "find")
            /\ UNCHANGED <<reference_hashes, batch>>
    /\ json_files' = 0
    /\ image_files' = << >>
    /\ results' = NoResults
    /\ hashes' = EmptyTable
    /\ before' = EmptyTable
    /\ contributed' = NoContribution
    /\ futures' = NoFutures
    /\ UNCHANGED <<work_queue, interrupted, stderr_lines, loaded, dispatched,
                   completed, folded>>
    /\ UNCHANGED <<argVars, searchVars, outputVars, exit_code, error>>

\* handle_output: open(dest, "w") truncates a file; stdout is written as is.
OpenOutput ==
    /\ pc = "output"
    /\ dest' \in {"file", "stdout"}
    /\ written' = 0
    /\ pc' = "write"
    /\ UNCHANGED <<argVars, collectVars, poolVars, indexVars, searchVars,
                   exit_code, error>>

\* json.dump writes the next chunk.
WriteChunk ==
    /\ pc = "write"
    /\ written < NumChunks(OutputEntries)
    /\ written' = written + 1
    /\ UNCHANGED <<pc, dest, exit_code, error>>
    /\ UNCHANGED <<argVars, collectVars, poolVars, indexVars, searchVars>>

\* json.dump returns, the file is closed and main ends (exit code 0).
CloseOutput ==
    /\ pc = "write"
    /\ written = NumChunks(OutputEntries)
    /\ pc' = "exit"
    /\ exit_code' = 0
    /\ UNCHANGED <<dest, written, error>>
    /\ UNCHANGED <<argVars, collectVars, poolVars, indexVars, searchVars>>

\* KeyboardInterrupt in the main thread.  Inside the executor block it first
\* runs __exit__, which waits for the workers; elsewhere it reaches main's
\* handler at once (a file being written is closed as it is).
Interrupt ==
    /\ pc # "exit"
    /\ ~interrupted
    /\ IF pc \in {"submit", "loop"}
       THEN /\ interrupted' = TRUE
            /\ pc' = "shutdown"
            /\ UNCHANGED <<exit_code, error>>
       ELSE /\ pc' = "exit"
            /\ exit_code' = 1
            /\ error' = "KeyboardInterrupt"
            /\ UNCHANGED interrupted
    /\ UNCHANGED <<futures, work_queue, stderr_lines, loaded, dispatched,
                   completed, folded>>
    /\ UNCHANGED <<argVars, collectVars, indexVars, searchVars, outputVars>>

Next ==
    \/ Walk
    \/ LoadJson
    \/ StartHashing
    \/ Submit
    \/ StartTask
    \/ FinishTask
    \/ Fold
    \/ LoopExit
    \/ Shutdown
    \/ CollectReturn
    \/ BuildTree
    \/ QueryStep
    \/ SearchReturn
    \/ OpenOutput
    \/ WriteChunk
    \/ CloseOutput
    \/ Interrupt

Spec == Init /\ [][Next]_vars

\* ------------------------------------------------------------------ claims
NoEmptySet(t) == \A i \in 1..Len(t) : t[i].files # {}

\* find_doppelgaenger has returned or raised.
SearchEnded == pc \in {"output", "exit"}

\* C2: with a non-empty reference index and an empty target index,
\* find_doppelgaenger returns an empty result and the run does not end in the
\* error state.
C2_EmptyTargetEmptyResult ==
    (SearchEnded /\ Len(reference_hashes) > 0 /\ Len(target_hashes) = 0)
        => (pc = "output" /\ error = "none" /\ exit_code # 1
            /\ doppelgaenger = EmptyResult)

\* C3: over a non-empty list of target hashes, what the range query with
\* radius max_distance + EPSILON returns is exactly the set of target hashes
\* at Hamming distance at most max_distance of the reference hash.
C3_RangeQueryIsBruteForce ==
    (last_query.valid /\ Len(target_hashes) > 0)
        => last_query.matches
             = BruteForce(target_hashes, last_query.hash, max_distance)

\* A query over a tree of four points that returns a hash at distance exactly
\* max_distance > 0 and leaves out a hash one bit further away.
C3_Witness ==
    /\ last_query.valid
    /\ Len(target_hashes) = 4
    /\ max_distance > 0
    /\ \E t \in last_query.matches :
           Hamming(last_query.hash, t) = max_distance
    /\ \E t \in KeySet(target_hashes) \ last_query.matches :
           Hamming(last_query.hash, t) = max_distance + 1

\* The reference entries that have a match, and the matched paths of one.
HasMatch(i) ==
    BruteForce(target_hashes, reference_hashes[i].hash, max_distance) # {}

MatchedPaths(i) ==
    UNION {Lookup(target_hashes, t) :
             t \in BruteForce(target_hashes, reference_hashes[i].hash,
                              max_distance)}

Holders(p) ==
    {i \in 1..Len(reference_hashes) :
        p \in reference_hashes[i].files /\ HasMatch(i)}

LastHolder(p) == CHOOSE i \in Holders(p) : \A j \in Holders(p) : j <= i

\* A reference path is in the result only if a match exists for it.
OnlyMatchedPaths == \A p \in DOMAIN doppelgaenger : Holders(p) # {}

\* C4 as stated: every path under a reference hash with a match is mapped to
\* the matched paths of that hash, and only such paths are in the result
\* (stated for indexes that hold no empty path set).
C4_EveryPathGetsItsMatches ==
    (/\ pc = "output" /\ command = "find"
     /\ NoEmptySet(reference_hashes) /\ NoEmptySet(target_hashes))
        => /\ \A i \in 1..Len(reference_hashes) :
                HasMatch(i) =>
                  \A p \in reference_hashes[i].files :
                      /\ p \in DOMAIN doppelgaenger
                      /\ doppelgaenger[p] = MatchedPaths(i)
           /\ OnlyMatchedPaths

\* C4 amended: every path under a reference hash with a match is mapped to the
\* matched paths of the last reference hash, in the order of the reference
\* index, that holds the path and has a match; only such paths are in the
\* result.
C4_PathGetsMatchesOfLastHolder ==
    (pc = "output" /\ command = "find")
        => /\ \A i \in 1..Len(reference_hashes) :
                HasMatch(i) =>
                  \A p \in reference_hashes[i].files :
                      /\ p \in DOMAIN doppelgaenger
                      /\ doppelgaenger[p] = MatchedPaths(LastHolder(p))
           /\ OnlyMatchedPaths

\* A finished search in which one path is held by two reference hashes with
\* different, non-empty matched paths, and has those of the second.
C4_Witness ==
    /\ pc = "output"
    /\ command = "find"
    /\ \E p \in DOMAIN doppelgaenger :
          \E i, j \in Holders(p) :
              /\ i < j
              /\ MatchedPaths(i) # MatchedPaths(j)
              /\ MatchedPaths(i) # {}
              /\ doppelgaenger[p] = MatchedPaths(j)


\* C1: when collect_hashes returns, the set stored under every fingerprint
\* holds every path that any source of the batch (a JSON file or a hashed
\* image) gave for that fingerprint (stated for an index that holds no empty
\* path set).
C1_SourcesAreMerged ==
    (pc = "collected" /\ NoEmptySet(hashes))
        => \A k \in RunFingerprints : contributed[k] \subseteq Lookup(hashes, k)

\* hash_images has returned for the batch.
HashImagesReturned == pc = "collected" /\ Len(image_files) > 0

Failed == {p \in Range(image_files) : results[p] = Fail}

\* The items of the list that are the file p.
Items(p) == {i \in 1..Len(image_files) : image_files[i] = p}

\* After hash_images: every file that hashed is under its fingerprint and no
\* path of a failed file was added.
BatchSkipsFailedFiles ==
    HashImagesReturned
        => /\ \A p \in Range(image_files) \ Failed :
                p \in Lookup(hashes, results[p])
           /\ \A k \in KeySet(hashes) :
                \A p \in Lookup(hashes, k) \ Lookup(before, k) :
                    p \in Range(image_files) /\ results[p] = k

\* After hash_images: one line for every item of the list that failed (a
\* failed file that is in the list twice has two lines).
OneLinePerFailedItem ==
    HashImagesReturned
        => \A p \in Paths :
              stderr_lines[batch][p]
                 = (IF p \in Failed THEN Cardinality(Items(p)) ELSE 0)

\* After hash_images: exactly one line for every file that failed.
OneLinePerFailedFile ==
    HashImagesReturned
        => \A p \in Paths :
              stderr_lines[batch][p] = (IF p \in Failed THEN 1 ELSE 0)

SomeFileFailed == \E b \in Batches, p \in Paths : stderr_lines[b][p] > 0

\* C5: a batch with files that fail is not aborted: the index holds the path
\* of every file that hashed, no path of a failed file is added, every failed
\* file has exactly one diagnostic, and a run in which files failed (and which
\* was neither interrupted nor given a malformed JSON file) ends with exit
\* code 0.
C5_FailedFilesDoNotFailTheRun ==
    /\ BatchSkipsFailedFiles
    /\ OneLinePerFailedFile
    /\ (pc = "exit" /\ SomeFileFailed
          /\ error \notin {"KeyboardInterrupt", "JSONError"})
          => exit_code = 0

\* C6: once the interrupt has arrived in a hashing batch, no task that has not
\* started is started.
C6_NoTaskStartsAfterInterrupt ==
    [][interrupted =>
         \A i \in DOMAIN futures :
             futures[i].state = "pending" => futures'[i].state = "pending"]_vars

\* What the index must hold after hash_images, whatever the schedule: what it
\* held before, and every file that hashed under its fingerprint.
ExpectedContent ==
    [k \in KeySet(before) \cup {results[p] : p \in Range(image_files) \ Failed}
        |-> Lookup(before, k) \cup {p \in Range(image_files) : results[p] = k}]

\* C7: for every worker count and every order in which the tasks start,
\* finish and are folded, the index hash_images returns has the same content,
\* and every task has been folded exactly once.
C7_ContentIndependentOfSchedule ==
    HashImagesReturned
        => /\ Content(hashes) = ExpectedContent
           /\ Len(futures) = Len(image_files)
           /\ \A i \in 1..Len(image_files) :
                futures[i].path = image_files[i] /\ futures[i].folds = 1

\* Two workers, two files with the same fingerprint, both folded.
C7_Witness ==
    /\ HashImagesReturned
    /\ threads = 2
    /\ Cardinality(Range(image_files)) = 2
    /\ \E k \in RunFingerprints :
          Lookup(hashes, k) \ Lookup(before, k) = Range(image_files)

\* The destination holds nothing of this run.
Untouched == dest = "none" \/ (dest = "stdout" /\ written = 0)

\* C8: a cancelled run leaves the destination untouched or with the complete
\* result.
C8_NoPartialOutputOnCancel ==
    (pc = "exit" /\ error = "KeyboardInterrupt")
        => (Untouched \/ written = NumChunks(OutputEntries))

\* C9: while find_doppelgaenger runs (the tree is built, a query is issued),
\* every task submitted for the reference batch and for the target batch has
\* finished and has been folded, and no task is queued.
C9_SearchAfterAllFolded ==
    (pc \in {"find", "query"} \/ ~tree.nil \/ last_query.valid)
        => /\ work_queue = << >>
           /\ \A b \in Batches :
                completed[b] = dispatched[b] /\ folded[b] = dispatched[b]

\* A query issued in a find run that hashed images in both batches.
C9_Witness ==
    /\ pc = "query"
    /\ last_query.valid
    /\ dispatched["reference"] > 0
    /\ dispatched["target"] > 0

\* C10: no fingerprint of any table maps to an empty path set.
C10_NoEmptyPathSet ==
    /\ NoEmptySet(hashes)
    /\ NoEmptySet(reference_hashes)
    /\ NoEmptySet(target_hashes)

=============================================================================
